---- MODULE Spec2Model ----
(***************************************************************************)
(* Model of the virtual try-on application state machine (App component):  *)
(* a layered outfit history, a per-layer cache of generated images keyed   *)
(* by "pose_emotion_background_color", and the asynchronous generation     *)
(* requests whose continuations update that state.                         *)
(*                                                                         *)
(* Strings are sequences of tokens.  The underscore is a token of its own  *)
(* (US); every other token is a maximal run of characters that contains no *)
(* underscore, so that equal strings are equal sequences.  Template        *)
(* literals are concatenations (\o).                                       *)
(*                                                                         *)
(* Every event handler runs to its first await atomically, and the code    *)
(* after the await (the try/catch/finally continuation) is a step of its   *)
(* own, taken when the request resolves or rejects.  The values a handler  *)
(* closes over (currentOutfitIndex, imageKey, the previous instruction,    *)
(* the base image) travel in the request record.                           *)
(*                                                                         *)
(* The arrow buttons of the canvas call onSelectPose with the first        *)
(* segment of a cached key, which is one of PoseInputs; the sheet toggle   *)
(* (isSheetCollapsed) touches nothing modelled here.  The text of          *)
(* getFriendlyErrorMessage is represented by the context it is given.      *)
(***************************************************************************)
EXTENDS Integers, Sequences, FiniteSets, TLC

VARIABLES
    modelImageUrl,
    outfitHistory,
    currentOutfitIndex,
    isLoading,
    loadingMessage,
    error,
    currentPoseInstruction,
    currentEmotionInstruction,
    currentBackgroundInstruction,
    currentColorInstruction,
    wardrobe,
    pending,      \* generation requests that have neither resolved nor rejected
    started,      \* number of generation requests started so far
    crashed       \* a state updater threw while rendering: the tree is unmounted

vars == <<modelImageUrl, outfitHistory, currentOutfitIndex, isLoading,
          loadingMessage, error, currentPoseInstruction,
          currentEmotionInstruction, currentBackgroundInstruction,
          currentColorInstruction, wardrobe, pending, started, crashed>>

axes == <<currentPoseInstruction, currentEmotionInstruction,
          currentBackgroundInstruction, currentColorInstruction>>

-----------------------------------------------------------------------------
(* Bounds *)

\* generation requests started in one behaviour
MaxRequests == 2
\* how many presets of each instruction list the menus offer in the model
NumPresets == 2

-----------------------------------------------------------------------------
(* Values *)

\* null of error and of OutfitLayer.garment
NULL == "null"
\* null of an image URL
NoUrl == << >>
\* the separator of the composite key
US == "_"

POSE_INSTRUCTIONS ==
    << <<"Full frontal view, hands on hips">>,
       <<"Slightly turned, 3/4 view">>,
       <<"Side profile view">>,
       <<"Jumping in the air, mid-action shot">>,
       <<"Walking towards camera">>,
       <<"Leaning against a wall">> >>

EMOTION_INSTRUCTIONS ==
    << <<"Neutral">>, <<"Happy">>, <<"Sad">>, <<"Serious">> >>

BACKGROUND_INSTRUCTIONS ==
    << <<"Neutral studio backdrop">>, <<"City street at night">>,
       <<"Serene beach at sunset">>, <<"Lush green forest">>,
       <<"Modern art gallery">> >>

COLOR_INSTRUCTIONS ==
    << <<"Original">>, <<"Vibrant Red">>, <<"Deep Blue">>, <<"Forest Green">>,
       <<"Classic Black">>, <<"Pure White">>, <<"Sunny Yellow">>, <<"Hot Pink">> >>

Min(a, b) == IF a <= b THEN a ELSE b

Presets(list) == {list[i] : i \in 1..Min(NumPresets, Len(list))}

\* trimmed, non-empty texts typed into the custom pose / emotion /
\* background forms; a typed background may hold the separator and may be
\* the text handleBackgroundUpload makes of a file name
CustomPoses == { <<"a">>, <<"a", US, "b">> }
CustomEmotions == { <<"c">>, <<"b", US, "c">> }
CustomBackgrounds == { <<"Parisian cafe">>, <<"x", US, "y">>, <<"Uploaded: f">> }
\* names of uploaded background files
FileNames == { <<"f">> }

\* the instructions each handler can be called with
PoseInputs == Presets(POSE_INSTRUCTIONS) \cup CustomPoses
EmotionInputs == Presets(EMOTION_INSTRUCTIONS) \cup CustomEmotions
BackgroundInputs == Presets(BACKGROUND_INSTRUCTIONS) \cup CustomBackgrounds
ColorInputs == Presets(COLOR_INSTRUCTIONS)

\* `Uploaded: ${file.name}`: the literal runs into the first run of the name
UploadedInstruction(name) ==
    IF name = << >> \/ name[1] = US
    THEN <<"Uploaded: ">> \o name
    ELSE <<"Uploaded: " \o name[1]>> \o Tail(name)

\* wardrobe items, by id; defaultWardrobe holds the first
Garments == {"g1", "g2"}
defaultWardrobe == <<"g1">>

\* URLs handed over by the start screen
ModelUrls == { <<"model", 1>> }
\* the image a generation request resolves with
GeneratedUrl(id) == <<"gen", id>>

-----------------------------------------------------------------------------
(* Pure helpers *)

\* `${pose}_${emotion}_${background}_${color}`
CompositeKey(pose, emotion, background, color) ==
    pose \o <<US>> \o emotion \o <<US>> \o background \o <<US>> \o color

\* String.prototype.startsWith
StartsWith(key, prefix) ==
    /\ Len(key) >= Len(prefix)
    /\ SubSeq(key, 1, Len(prefix)) = prefix

\* position of key in a generatedImages record (a sequence of entries in
\* insertion order), 0 when absent
IndexOfKey(images, key) ==
    LET S == {i \in 1..Len(images) : images[i].key = key}
    IN  IF S = {} THEN 0 ELSE CHOOSE i \in S : \A j \in S : i <= j

HasKey(images, key) == IndexOfKey(images, key) # 0

\* generatedImages[key]
ImageAt(images, key) == images[IndexOfKey(images, key)].url

\* keys.find(key => key.startsWith(prefix)), as a position, 0 when none
FindPrefix(images, prefix) ==
    LET S == {i \in 1..Len(images) : StartsWith(images[i].key, prefix)}
    IN  IF S = {} THEN 0 ELSE CHOOSE i \in S : \A j \in S : i <= j

\* generatedImages[key] = url: an existing key keeps its place
PutImage(images, key, url) ==
    IF HasKey(images, key)
    THEN [images EXCEPT ![IndexOfKey(images, key)].url = url]
    ELSE Append(images, [key |-> key, url |-> url])

DefaultKey ==
    CompositeKey(POSE_INSTRUCTIONS[1], EMOTION_INSTRUCTIONS[1],
                 BACKGROUND_INSTRUCTIONS[1], COLOR_INSTRUCTIONS[1])

\* the memo without its third fallback (pose, any emotion)
ResolveDisplayNoPoseFallback(history, index, pose, emotion, background, color, model) ==
    IF Len(history) = 0 THEN model
    ELSE IF index + 1 > Len(history) THEN model
    ELSE
      LET images == history[index + 1].generatedImages
          pe  == pose \o <<US>> \o emotion \o <<US>>
          peb == pe \o background \o <<US>>
      IN  IF HasKey(images, CompositeKey(pose, emotion, background, color))
            THEN ImageAt(images, CompositeKey(pose, emotion, background, color))
          ELSE IF FindPrefix(images, peb) # 0
            THEN images[FindPrefix(images, peb)].url
          ELSE IF FindPrefix(images, pe) # 0
            THEN images[FindPrefix(images, pe)].url
          ELSE IF Len(images) > 0 THEN images[1].url
          ELSE NoUrl

\* the displayImageUrl memo
ResolveDisplay(history, index, pose, emotion, background, color, model) ==
    IF Len(history) = 0 THEN model
    ELSE IF index + 1 > Len(history) THEN model
    ELSE
      LET images == history[index + 1].generatedImages
          pe  == pose \o <<US>> \o emotion \o <<US>>
          peb == pe \o background \o <<US>>
      IN  IF HasKey(images, CompositeKey(pose, emotion, background, color))
            THEN ImageAt(images, CompositeKey(pose, emotion, background, color))
          ELSE IF FindPrefix(images, peb) # 0
            THEN images[FindPrefix(images, peb)].url
          ELSE IF FindPrefix(images, pe) # 0
            THEN images[FindPrefix(images, pe)].url
          ELSE IF FindPrefix(images, pose \o <<US>>) # 0
            THEN images[FindPrefix(images, pose \o <<US>>)].url
          ELSE IF Len(images) > 0 THEN images[1].url
          ELSE NoUrl

displayImageUrl ==
    ResolveDisplay(outfitHistory, currentOutfitIndex, currentPoseInstruction,
                   currentEmotionInstruction, currentBackgroundInstruction,
                   currentColorInstruction, modelImageUrl)

-----------------------------------------------------------------------------
(* Initial state: the useState initialisers *)

Init ==
    /\ modelImageUrl = NoUrl
    /\ outfitHistory = << >>
    /\ currentOutfitIndex = 0
    /\ isLoading = FALSE
    /\ loadingMessage = << >>
    /\ error = NULL
    /\ currentPoseInstruction = POSE_INSTRUCTIONS[1]
    /\ currentEmotionInstruction = EMOTION_INSTRUCTIONS[1]
    /\ currentBackgroundInstruction = BACKGROUND_INSTRUCTIONS[1]
    /\ currentColorInstruction = COLOR_INSTRUCTIONS[1]
    /\ wardrobe = defaultWardrobe
    /\ pending = {}
    /\ started = 0
    /\ crashed = FALSE

-----------------------------------------------------------------------------
(* Handlers *)

resetStateForNewGarment ==
    /\ currentPoseInstruction' = POSE_INSTRUCTIONS[1]
    /\ currentEmotionInstruction' = EMOTION_INSTRUCTIONS[1]
    /\ currentBackgroundInstruction' = BACKGROUND_INSTRUCTIONS[1]
    /\ currentColorInstruction' = COLOR_INSTRUCTIONS[1]

\* the start screen is rendered only while modelImageUrl is null
handleModelFinalized(url) ==
    /\ ~crashed
    /\ modelImageUrl = NoUrl
    /\ modelImageUrl' = url
    /\ outfitHistory' =
         << [garment |-> NULL,
             generatedImages |-> << [key |-> DefaultKey, url |-> url] >>] >>
    /\ currentOutfitIndex' = 0
    /\ resetStateForNewGarment
    /\ UNCHANGED <<isLoading, loadingMessage, error, wardrobe, pending,
                   started, crashed>>

\* the canvas (and its Start Over button) is rendered only with a model
handleStartOver ==
    /\ ~crashed
    /\ modelImageUrl # NoUrl
    /\ modelImageUrl' = NoUrl
    /\ outfitHistory' = << >>
    /\ currentOutfitIndex' = 0
    /\ isLoading' = FALSE
    /\ loadingMessage' = << >>
    /\ error' = NULL
    /\ resetStateForNewGarment
    /\ wardrobe' = defaultWardrobe
    /\ UNCHANGED <<pending, started, crashed>>

\* setError(null); setIsLoading(true); setLoadingMessage(..); then the await
BeginRequest(request, message) ==
    /\ started < MaxRequests
    /\ error' = NULL
    /\ isLoading' = TRUE
    /\ loadingMessage' = message
    /\ started' = started + 1
    /\ pending' = pending \cup {[request EXCEPT !.id = started + 1]}

Request(kind, key, prev, garment, base) ==
    [id |-> 0, kind |-> kind, index |-> currentOutfitIndex, key |-> key,
     prev |-> prev, garment |-> garment, base |-> base]

\* handleGarmentSelect without the look at the next layer: every selection
\* is generated
handleGarmentSelectNoRedo(garment) ==
    /\ ~crashed
    /\ modelImageUrl # NoUrl
    /\ displayImageUrl # NoUrl
    /\ ~isLoading
    /\ BeginRequest(Request("garment", DefaultKey, << >>, garment,
                            displayImageUrl), <<"Adding ", garment, "...">>)
    /\ resetStateForNewGarment
    /\ UNCHANGED <<modelImageUrl, outfitHistory, currentOutfitIndex,
                   wardrobe, crashed>>

handleGarmentSelect(garment) ==
    /\ ~crashed
    /\ modelImageUrl # NoUrl
    /\ displayImageUrl # NoUrl
    /\ ~isLoading
    /\ IF /\ currentOutfitIndex + 2 <= Len(outfitHistory)
          /\ outfitHistory[currentOutfitIndex + 2].garment = garment
       THEN /\ currentOutfitIndex' = currentOutfitIndex + 1
            /\ resetStateForNewGarment
            /\ UNCHANGED <<modelImageUrl, outfitHistory, isLoading,
                           loadingMessage, error, wardrobe, pending, started,
                           crashed>>
       ELSE /\ BeginRequest(Request("garment", DefaultKey, << >>, garment,
                                    displayImageUrl), <<"Adding ", garment, "...">>)
            /\ resetStateForNewGarment
            /\ UNCHANGED <<modelImageUrl, outfitHistory, currentOutfitIndex,
                           wardrobe, crashed>>

\* handleRemoveLastGarment without the test of the index
handleRemoveLastGarmentUnguarded ==
    /\ ~crashed
    /\ modelImageUrl # NoUrl
    /\ currentOutfitIndex' = currentOutfitIndex - 1
    /\ resetStateForNewGarment
    /\ UNCHANGED <<modelImageUrl, outfitHistory, isLoading, loadingMessage,
                   error, wardrobe, pending, started, crashed>>

handleRemoveLastGarment ==
    /\ ~crashed
    /\ modelImageUrl # NoUrl
    /\ currentOutfitIndex > 0
    /\ currentOutfitIndex' = currentOutfitIndex - 1
    /\ resetStateForNewGarment
    /\ UNCHANGED <<modelImageUrl, outfitHistory, isLoading, loadingMessage,
                   error, wardrobe, pending, started, crashed>>

\* what the four variation handlers test before they read the current layer;
\* reading generatedImages of a layer that does not exist throws in the
\* handler and changes nothing
CanVary ==
    /\ ~crashed
    /\ modelImageUrl # NoUrl
    /\ ~isLoading
    /\ Len(outfitHistory) # 0
    /\ currentOutfitIndex + 1 <= Len(outfitHistory)

currentImages == outfitHistory[currentOutfitIndex + 1].generatedImages

\* handlePoseSelect without the cache lookup: every selection is generated
handlePoseSelectNoCache(newInstruction) ==
    LET imageKey == CompositeKey(newInstruction, currentEmotionInstruction,
                        currentBackgroundInstruction, currentColorInstruction)
    IN  /\ CanVary
        /\ newInstruction # currentPoseInstruction
        /\ displayImageUrl # NoUrl
        /\ BeginRequest(Request("pose", imageKey, currentPoseInstruction,
                                NULL, displayImageUrl),
                        <<"Changing pose...">>)
        /\ currentPoseInstruction' = newInstruction
        /\ UNCHANGED <<modelImageUrl, outfitHistory, currentOutfitIndex,
                       currentEmotionInstruction,
                       currentBackgroundInstruction,
                       currentColorInstruction, wardrobe, crashed>>

handlePoseSelect(newInstruction) ==
    LET imageKey == CompositeKey(newInstruction, currentEmotionInstruction,
                        currentBackgroundInstruction, currentColorInstruction)
    IN  /\ CanVary
        /\ newInstruction # currentPoseInstruction
        /\ IF HasKey(currentImages, imageKey)
           THEN /\ currentPoseInstruction' = newInstruction
                /\ UNCHANGED <<modelImageUrl, outfitHistory, currentOutfitIndex,
                               isLoading, loadingMessage, error,
                               currentEmotionInstruction,
                               currentBackgroundInstruction,
                               currentColorInstruction, wardrobe, pending,
                               started, crashed>>
           ELSE /\ displayImageUrl # NoUrl
                /\ BeginRequest(Request("pose", imageKey, currentPoseInstruction,
                                        NULL, displayImageUrl),
                                <<"Changing pose...">>)
                /\ currentPoseInstruction' = newInstruction
                /\ UNCHANGED <<modelImageUrl, outfitHistory, currentOutfitIndex,
                               currentEmotionInstruction,
                               currentBackgroundInstruction,
                               currentColorInstruction, wardrobe, crashed>>

handleEmotionSelect(newInstruction) ==
    LET imageKey == CompositeKey(currentPoseInstruction, newInstruction,
                        currentBackgroundInstruction, currentColorInstruction)
    IN  /\ CanVary
        /\ newInstruction # currentEmotionInstruction
        /\ IF HasKey(currentImages, imageKey)
           THEN /\ currentEmotionInstruction' = newInstruction
                /\ UNCHANGED <<modelImageUrl, outfitHistory, currentOutfitIndex,
                               isLoading, loadingMessage, error,
                               currentPoseInstruction,
                               currentBackgroundInstruction,
                               currentColorInstruction, wardrobe, pending,
                               started, crashed>>
           ELSE /\ displayImageUrl # NoUrl
                /\ BeginRequest(Request("emotion", imageKey,
                                        currentEmotionInstruction, NULL,
                                        displayImageUrl),
                                <<"Changing emotion to ">> \o newInstruction
                                    \o <<"...">>)
                /\ currentEmotionInstruction' = newInstruction
                /\ UNCHANGED <<modelImageUrl, outfitHistory, currentOutfitIndex,
                               currentPoseInstruction,
                               currentBackgroundInstruction,
                               currentColorInstruction, wardrobe, crashed>>

\* the body shared by handleBackgroundChange and handleBackgroundUpload
BackgroundBody(kind, newInstruction, message) ==
    LET imageKey == CompositeKey(currentPoseInstruction,
                        currentEmotionInstruction, newInstruction,
                        currentColorInstruction)
    IN  IF HasKey(currentImages, imageKey)
        THEN /\ currentBackgroundInstruction' = newInstruction
             /\ UNCHANGED <<modelImageUrl, outfitHistory, currentOutfitIndex,
                            isLoading, loadingMessage, error,
                            currentPoseInstruction, currentEmotionInstruction,
                            currentColorInstruction, wardrobe, pending,
                            started, crashed>>
        ELSE /\ displayImageUrl # NoUrl
             /\ BeginRequest(Request(kind, imageKey,
                                     currentBackgroundInstruction, NULL,
                                     displayImageUrl), message)
             /\ currentBackgroundInstruction' = newInstruction
             /\ UNCHANGED <<modelImageUrl, outfitHistory, currentOutfitIndex,
                            currentPoseInstruction, currentEmotionInstruction,
                            currentColorInstruction, wardrobe, crashed>>

handleBackgroundChange(newInstruction) ==
    /\ CanVary
    /\ newInstruction # currentBackgroundInstruction
    /\ BackgroundBody("background", newInstruction, <<"Changing background...">>)

handleBackgroundUpload(name) ==
    /\ CanVary
    /\ BackgroundBody("upload", UploadedInstruction(name),
                      <<"Applying custom background...">>)

handleColorChange(newInstruction) ==
    LET imageKey == CompositeKey(currentPoseInstruction,
                        currentEmotionInstruction,
                        currentBackgroundInstruction, newInstruction)
        originalColorKey == CompositeKey(currentPoseInstruction,
                        currentEmotionInstruction,
                        currentBackgroundInstruction, COLOR_INSTRUCTIONS[1])
    IN  /\ CanVary
        /\ newInstruction # currentColorInstruction
        /\ currentOutfitIndex # 0
        /\ IF HasKey(currentImages, imageKey)
           THEN /\ currentColorInstruction' = newInstruction
                /\ UNCHANGED <<modelImageUrl, outfitHistory, currentOutfitIndex,
                               isLoading, loadingMessage, error,
                               currentPoseInstruction,
                               currentEmotionInstruction,
                               currentBackgroundInstruction, wardrobe, pending,
                               started, crashed>>
           ELSE IF ~HasKey(currentImages, originalColorKey)
           THEN /\ error' = "The original image for this outfit is missing. Cannot change color."
                /\ UNCHANGED <<modelImageUrl, outfitHistory, currentOutfitIndex,
                               isLoading, loadingMessage, axes, wardrobe,
                               pending, started, crashed>>
           ELSE /\ BeginRequest(Request("color", imageKey,
                                        currentColorInstruction, NULL,
                                        ImageAt(currentImages, originalColorKey)),
                                <<"Changing color to ">> \o newInstruction
                                    \o <<"...">>)
                /\ currentColorInstruction' = newInstruction
                /\ UNCHANGED <<modelImageUrl, outfitHistory, currentOutfitIndex,
                               currentPoseInstruction,
                               currentEmotionInstruction,
                               currentBackgroundInstruction, wardrobe, crashed>>

-----------------------------------------------------------------------------
(* Continuations of the generation requests *)

VariationKinds == {"pose", "emotion", "background", "upload", "color"}

\* finally { setIsLoading(false); setLoadingMessage('') }
Finally ==
    /\ isLoading' = FALSE
    /\ loadingMessage' = << >>

\* prevHistory.slice(0, currentOutfitIndex + 1) followed by newLayer
AppendLayer(history, index, layer) ==
    Append(SubSeq(history, 1, Min(index + 1, Len(history))), layer)

\* wardrobe gains the garment unless an item with its id is there
AddToWardrobe(items, garment) ==
    IF \E i \in 1..Len(items) : items[i] = garment
    THEN items
    ELSE Append(items, garment)

GarmentResolved(r) ==
    /\ ~crashed
    /\ r \in pending
    /\ r.kind = "garment"
    /\ pending' = pending \ {r}
    /\ outfitHistory' =
         AppendLayer(outfitHistory, r.index,
             [garment |-> r.garment,
              generatedImages |->
                  << [key |-> DefaultKey, url |-> GeneratedUrl(r.id)] >>])
    /\ currentOutfitIndex' = currentOutfitIndex + 1
    /\ wardrobe' = AddToWardrobe(wardrobe, r.garment)
    /\ Finally
    /\ UNCHANGED <<modelImageUrl, error, axes, started, crashed>>

\* the catch branch with the index update moved into it
GarmentRejectedAdvances(r) ==
    /\ ~crashed
    /\ r \in pending
    /\ r.kind = "garment"
    /\ pending' = pending \ {r}
    /\ error' = "Failed to apply garment"
    /\ currentOutfitIndex' = currentOutfitIndex + 1
    /\ Finally
    /\ UNCHANGED <<modelImageUrl, outfitHistory, axes, wardrobe, started,
                   crashed>>

GarmentRejected(r) ==
    /\ ~crashed
    /\ r \in pending
    /\ r.kind = "garment"
    /\ pending' = pending \ {r}
    /\ error' = "Failed to apply garment"
    /\ Finally
    /\ UNCHANGED <<modelImageUrl, outfitHistory, currentOutfitIndex, axes,
                   wardrobe, started, crashed>>

\* the updater of setOutfitHistory in the five variation handlers
UpdateLayer(history, index, key, url) ==
    [history EXCEPT ![index + 1].generatedImages = PutImage(@, key, url)]

\* The updater reads generatedImages of prevHistory[currentOutfitIndex]; when
\* that layer does not exist it throws while React renders, and with no error
\* boundary the tree is unmounted.
VariationResolved(r) ==
    /\ ~crashed
    /\ r \in pending
    /\ r.kind \in VariationKinds
    /\ pending' = pending \ {r}
    /\ IF r.index + 1 <= Len(outfitHistory)
       THEN /\ outfitHistory' =
                 UpdateLayer(outfitHistory, r.index, r.key, GeneratedUrl(r.id))
            /\ Finally
            /\ UNCHANGED <<modelImageUrl, currentOutfitIndex, error, axes,
                           wardrobe, started, crashed>>
       ELSE /\ crashed' = TRUE
            /\ UNCHANGED <<modelImageUrl, outfitHistory, currentOutfitIndex,
                           isLoading, loadingMessage, error, axes, wardrobe,
                           started>>

FailureMessage(kind) ==
    CASE kind = "pose" -> "Failed to change pose"
      [] kind = "emotion" -> "Failed to change emotion"
      [] kind = "background" -> "Failed to change background"
      [] kind = "upload" -> "Failed to apply custom background"
      [] kind = "color" -> "Failed to change color"

\* a catch branch that forgets to put the previous instruction back
KeepAxis(r) ==
    UNCHANGED axes

\* catch { setError(..); setCurrent<Axis>Instruction(prev) } finally { .. }
RestoreAxis(r) ==
    /\ currentPoseInstruction' =
         IF r.kind = "pose" THEN r.prev ELSE currentPoseInstruction
    /\ currentEmotionInstruction' =
         IF r.kind = "emotion" THEN r.prev ELSE currentEmotionInstruction
    /\ currentBackgroundInstruction' =
         IF r.kind \in {"background", "upload"} THEN r.prev
         ELSE currentBackgroundInstruction
    /\ currentColorInstruction' =
         IF r.kind = "color" THEN r.prev ELSE currentColorInstruction

VariationRejected(r) ==
    /\ ~crashed
    /\ r \in pending
    /\ r.kind \in VariationKinds
    /\ pending' = pending \ {r}
    /\ error' = FailureMessage(r.kind)
    /\ RestoreAxis(r)
    /\ Finally
    /\ UNCHANGED <<modelImageUrl, outfitHistory, currentOutfitIndex, wardrobe,
                   started, crashed>>

-----------------------------------------------------------------------------

Next ==
    \/ \E url \in ModelUrls : handleModelFinalized(url)
    \/ handleStartOver
    \/ \E garment \in Garments : handleGarmentSelect(garment)
    \/ handleRemoveLastGarment
    \/ \E n \in PoseInputs : handlePoseSelect(n)
    \/ \E n \in EmotionInputs : handleEmotionSelect(n)
    \/ \E n \in BackgroundInputs : handleBackgroundChange(n)
    \/ \E name \in FileNames : handleBackgroundUpload(name)
    \/ \E n \in ColorInputs : handleColorChange(n)
    \/ \E r \in pending : GarmentResolved(r)
    \/ \E r \in pending : GarmentRejected(r)
    \/ \E r \in pending : VariationResolved(r)
    \/ \E r \in pending : VariationRejected(r)

Spec == Init /\ [][Next]_vars

-----------------------------------------------------------------------------
(* Properties *)

layerExists ==
    /\ Len(outfitHistory) # 0
    /\ currentOutfitIndex + 1 <= Len(outfitHistory)

primaryKey ==
    CompositeKey(currentPoseInstruction, currentEmotionInstruction,
                 currentBackgroundInstruction, currentColorInstruction)

posePrefix == currentPoseInstruction \o <<US>>
poseEmotionPrefix == posePrefix \o currentEmotionInstruction \o <<US>>
poseEmotionBgPrefix == poseEmotionPrefix \o currentBackgroundInstruction \o <<US>>

\* the entries of the current layer whose key starts with prefix
Matching(prefix) ==
    {i \in 1..Len(currentImages) : StartsWith(currentImages[i].key, prefix)}

\* the displayed image is the image of the earliest inserted entry of S
ShowsFirstOf(S) ==
    \E i \in S : /\ \A j \in S : i <= j
                 /\ displayImageUrl = currentImages[i].url

\* C1: with no layer at currentOutfitIndex the displayed image is
\* modelImageUrl; otherwise it is the image under the exact composite key of
\* the current selection when that key is cached, else that of the first
\* inserted key with the prefix pose_emotion_background_, else pose_emotion_,
\* else pose_, else the first image of the layer.
DisplayResolution ==
    /\ ~layerExists => displayImageUrl = modelImageUrl
    /\ layerExists =>
         LET exact == {i \in 1..Len(currentImages) :
                          currentImages[i].key = primaryKey}
         IN  CASE exact # {} -> ShowsFirstOf(exact)
               [] exact = {} /\ Matching(poseEmotionBgPrefix) # {} ->
                    ShowsFirstOf(Matching(poseEmotionBgPrefix))
               [] exact = {} /\ Matching(poseEmotionBgPrefix) = {}
                    /\ Matching(poseEmotionPrefix) # {} ->
                    ShowsFirstOf(Matching(poseEmotionPrefix))
               [] exact = {} /\ Matching(poseEmotionPrefix) = {}
                    /\ Matching(posePrefix) # {} ->
                    ShowsFirstOf(Matching(posePrefix))
               [] OTHER -> displayImageUrl = currentImages[1].url

\* the exact key and the two longer prefixes miss, and the pose prefix finds
\* an image that is not the first of the layer
DisplayPoseFallbackReached ==
    /\ layerExists
    /\ ~HasKey(currentImages, primaryKey)
    /\ Matching(poseEmotionPrefix) = {}
    /\ Matching(posePrefix) # {}
    /\ 1 \notin Matching(posePrefix)
    /\ displayImageUrl # currentImages[1].url

\* the key a handler looks up: the new instruction on one axis, the current
\* ones on the other three
KeyWith(axis, newInstruction) ==
    CompositeKey(
        IF axis = "pose" THEN newInstruction ELSE currentPoseInstruction,
        IF axis = "emotion" THEN newInstruction ELSE currentEmotionInstruction,
        IF axis = "background" THEN newInstruction
                               ELSE currentBackgroundInstruction,
        IF axis = "color" THEN newInstruction ELSE currentColorInstruction)

\* only the one axis moves to newInstruction; nothing is requested
OnlyAxisSet(axis, newInstruction) ==
    /\ currentPoseInstruction' =
         IF axis = "pose" THEN newInstruction ELSE currentPoseInstruction
    /\ currentEmotionInstruction' =
         IF axis = "emotion" THEN newInstruction ELSE currentEmotionInstruction
    /\ currentBackgroundInstruction' =
         IF axis = "background" THEN newInstruction
                                ELSE currentBackgroundInstruction
    /\ currentColorInstruction' =
         IF axis = "color" THEN newInstruction ELSE currentColorInstruction
    /\ UNCHANGED <<modelImageUrl, outfitHistory, currentOutfitIndex, isLoading,
                   loadingMessage, error, wardrobe, pending, started, crashed>>
    /\ isLoading' = FALSE

Cached(axis, newInstruction) ==
    /\ CanVary
    /\ HasKey(currentImages, KeyWith(axis, newInstruction))

\* C2: a pose, emotion, background, uploaded-background or colour selection
\* whose composite key is already cached in the current layer only sets that
\* axis: no request is started, isLoading stays false, and outfitHistory,
\* currentOutfitIndex and error are unchanged.
CacheReuse ==
    [][ /\ \A n \in PoseInputs :
             Cached("pose", n) /\ handlePoseSelect(n) => OnlyAxisSet("pose", n)
        /\ \A n \in EmotionInputs :
             Cached("emotion", n) /\ handleEmotionSelect(n)
                 => OnlyAxisSet("emotion", n)
        /\ \A n \in BackgroundInputs :
             Cached("background", n) /\ handleBackgroundChange(n)
                 => OnlyAxisSet("background", n)
        /\ \A name \in FileNames :
             Cached("background", UploadedInstruction(name))
                 /\ handleBackgroundUpload(name)
                 => OnlyAxisSet("background", UploadedInstruction(name))
        /\ \A n \in ColorInputs :
             Cached("color", n) /\ handleColorChange(n)
                 => OnlyAxisSet("color", n)
      ]_vars

\* one pose was generated on the base layer and the default pose has been
\* selected again: the only step that leads here is a cache hit
CacheReuseReached ==
    /\ started = 1
    /\ pending = {}
    /\ ~isLoading
    /\ Len(outfitHistory) = 1
    /\ currentOutfitIndex = 0
    /\ HasKey(currentImages,
              CompositeKey(POSE_INSTRUCTIONS[2], EMOTION_INSTRUCTIONS[1],
                           BACKGROUND_INSTRUCTIONS[1], COLOR_INSTRUCTIONS[1]))
    /\ currentPoseInstruction = POSE_INSTRUCTIONS[1]
    /\ error = NULL

\* the layer at position index (from 0) holds url under key, and every other
\* layer and every other entry is as in the state before
LayerReceives(index, key, url) ==
    /\ index + 1 <= Len(outfitHistory)
    /\ Len(outfitHistory') = Len(outfitHistory)
    /\ \A i \in 1..Len(outfitHistory) :
         i # index + 1 => outfitHistory'[i] = outfitHistory[i]
    /\ outfitHistory'[index + 1].garment = outfitHistory[index + 1].garment
    /\ LET before == outfitHistory[index + 1].generatedImages
           after  == outfitHistory'[index + 1].generatedImages
       IN  /\ HasKey(after, key)
           /\ ImageAt(after, key) = url
           /\ \A i \in 1..Len(before) :
                before[i].key # key =>
                    /\ HasKey(after, before[i].key)
                    /\ ImageAt(after, before[i].key) = before[i].url
           /\ \A i \in 1..Len(after) :
                after[i].key # key => HasKey(before, after[i].key)

\* C3: whenever a pose, emotion, background, uploaded-background or colour
\* request resolves, the layer at the index that was current when the request
\* started still exists and receives the new image under the key computed at
\* the start of the request; no other layer and no other key changes.
MissIsCached ==
    [][ \A r \in pending :
          r.kind \in VariationKinds /\ VariationResolved(r)
            => LayerReceives(r.index, r.key, GeneratedUrl(r.id)) ]_vars

\* C4: when the request of handleGarmentSelect, invoked at index i, resolves,
\* outfitHistory becomes the former layers 0..i, unchanged, followed by
\* exactly one new layer that holds the garment and one image under the
\* default key.
GarmentAppendsLayer ==
    [][ \A r \in pending :
          GarmentResolved(r)
            => /\ r.index + 1 <= Len(outfitHistory)
               /\ Len(outfitHistory') = r.index + 2
               /\ \A i \in 1..(r.index + 1) :
                    outfitHistory'[i] = outfitHistory[i]
               /\ outfitHistory'[r.index + 2] =
                    [garment |-> r.garment,
                     generatedImages |->
                       << [key |-> DefaultKey, url |-> GeneratedUrl(r.id)] >>]
      ]_vars

\* C5: in a non-empty outfitHistory layer 0 has garment null and every layer
\* above it has a garment.
BaseLayerInvariant ==
    Len(outfitHistory) > 0 =>
        /\ outfitHistory[1].garment = NULL
        /\ \A i \in 2..Len(outfitHistory) : outfitHistory[i].garment # NULL

\* the selections the handlers can be called into
SubmittableSelections ==
    PoseInputs \X EmotionInputs
        \X (BackgroundInputs \cup {UploadedInstruction(name) : name \in FileNames})
        \X ColorInputs

\* C6: no submittable selection that differs from the current one in at
\* least one axis has the composite key of the current selection.
CompositeKeyInjective ==
    \A s \in SubmittableSelections :
        s # <<currentPoseInstruction, currentEmotionInstruction,
              currentBackgroundInstruction, currentColorInstruction>>
          => CompositeKey(s[1], s[2], s[3], s[4]) # primaryKey

\* C7: at most one generation request is outstanding.
NoConcurrentGeneration ==
    Cardinality(pending) <= 1

\* the axis a request of this kind changes
AxisOf(kind) ==
    CASE kind = "pose" -> currentPoseInstruction
      [] kind = "emotion" -> currentEmotionInstruction
      [] kind \in {"background", "upload"} -> currentBackgroundInstruction
      [] kind = "color" -> currentColorInstruction

\* C8: when a pose, emotion, background, uploaded-background or colour
\* request rejects, its axis is set back to the instruction it had when the
\* request started, outfitHistory and currentOutfitIndex are unchanged, error
\* is a message, isLoading is false and the loading message is empty.
VariationRollback ==
    [][ \A r \in pending :
          r.kind \in VariationKinds /\ VariationRejected(r)
            => /\ AxisOf(r.kind)' = r.prev
               /\ UNCHANGED <<outfitHistory, currentOutfitIndex>>
               /\ error' # NULL
               /\ isLoading' = FALSE
               /\ loadingMessage' = << >> ]_vars

\* a pose request made from a generated, non-default pose has been rejected
\* and that pose is current again
VariationRollbackReached ==
    /\ error = "Failed to change pose"
    /\ ~isLoading
    /\ loadingMessage = << >>
    /\ pending = {}
    /\ started = 2
    /\ currentPoseInstruction = POSE_INSTRUCTIONS[2]

\* C9: neither the start of a garment application nor its rejection changes
\* outfitHistory, currentOutfitIndex or the wardrobe; the rejection sets
\* error to a message and isLoading to false.
GarmentFailureFrame ==
    [][ /\ \A garment \in Garments :
             handleGarmentSelect(garment) /\ started' # started
               => UNCHANGED <<outfitHistory, currentOutfitIndex, wardrobe>>
        /\ \A r \in pending :
             GarmentRejected(r)
               => /\ UNCHANGED <<outfitHistory, currentOutfitIndex, wardrobe>>
                  /\ error' # NULL
                  /\ isLoading' = FALSE ]_vars

\* the application of a garment on top of a garment layer has been rejected
GarmentFailureReached ==
    /\ error = "Failed to apply garment"
    /\ ~isLoading
    /\ pending = {}
    /\ Len(outfitHistory) = 2
    /\ currentOutfitIndex = 1

\* C10: when a garment application is rejected and the image that was
\* displayed when it started is still cached in the layer it started on,
\* which is still the current layer, that image is displayed after the
\* rejection.
GarmentFailureKeepsDisplay ==
    [][ \A r \in pending :
          /\ GarmentRejected(r)
          /\ layerExists
          /\ currentOutfitIndex = r.index
          /\ \E i \in 1..Len(currentImages) : currentImages[i].url = r.base
          => displayImageUrl' = r.base ]_vars

defaultAxes ==
    <<POSE_INSTRUCTIONS[1], EMOTION_INSTRUCTIONS[1],
      BACKGROUND_INSTRUCTIONS[1], COLOR_INSTRUCTIONS[1]>>

\* handleGarmentSelect would pass its guards and find garment on the next layer
CanRedo(garment) ==
    /\ ~crashed
    /\ modelImageUrl # NoUrl
    /\ displayImageUrl # NoUrl
    /\ ~isLoading
    /\ currentOutfitIndex + 2 <= Len(outfitHistory)
    /\ outfitHistory[currentOutfitIndex + 2].garment = garment

\* CanRedo(garment) in the state the step leads to
CanRedoNext(garment) ==
    /\ ~crashed'
    /\ modelImageUrl' # NoUrl
    /\ displayImageUrl' # NoUrl
    /\ ~isLoading'
    /\ currentOutfitIndex' + 2 <= Len(outfitHistory')
    /\ outfitHistory'[currentOutfitIndex' + 2].garment = garment

\* C11: handleRemoveLastGarment taken in an idle state on layer i > 0 leaves
\* outfitHistory as it is and leads to a state in which handleGarmentSelect
\* of the garment of layer i passes its guards and finds that garment on the
\* next layer; and every handleGarmentSelect step that finds its garment on
\* the next layer moves the index up by one, leaves outfitHistory (cached
\* images included) as it is, starts no request and leaves the four axes at
\* their defaults.
UndoRedoRoundTrip ==
    [][ /\ (handleRemoveLastGarment /\ ~isLoading /\ layerExists)
             => /\ UNCHANGED outfitHistory
                /\ currentOutfitIndex' = currentOutfitIndex - 1
                /\ CanRedoNext(outfitHistory[currentOutfitIndex + 1].garment)
        /\ \A garment \in Garments :
             (CanRedo(garment) /\ handleGarmentSelect(garment))
               => /\ currentOutfitIndex' = currentOutfitIndex + 1
                  /\ UNCHANGED <<outfitHistory, pending, started, isLoading>>
                  /\ isLoading' = FALSE
                  /\ axes' = defaultAxes
      ]_vars

\* the only garment layer has been removed and can be put back: one request
\* was made, it resolved, and the index is below the layer it appended
UndoRedoReached ==
    /\ started = 1
    /\ pending = {}
    /\ Len(outfitHistory) = 2
    /\ currentOutfitIndex = 0
    /\ CanRedo(outfitHistory[2].garment)

\* C12: every handleRemoveLastGarment step is taken with
\* currentOutfitIndex > 0, lowers the index by one, sets pose, emotion,
\* background and colour to their defaults and leaves outfitHistory as it is;
\* the index stays at or above 0, the base layer.
RemoveLastGarmentFrame ==
    [][ handleRemoveLastGarment
          => /\ currentOutfitIndex > 0
             /\ currentOutfitIndex' = currentOutfitIndex - 1
             /\ currentOutfitIndex' >= 0
             /\ axes' = defaultAxes
             /\ UNCHANGED outfitHistory ]_vars

\* a garment layer with a non-default pose selected has been left: the
\* index is below the last layer and the removed layer is kept
RemoveLastGarmentReached ==
    /\ Len(outfitHistory) = 2
    /\ currentOutfitIndex = 0
    /\ HasKey(outfitHistory[2].generatedImages,
              CompositeKey(POSE_INSTRUCTIONS[2], EMOTION_INSTRUCTIONS[1],
                           BACKGROUND_INSTRUCTIONS[1], COLOR_INSTRUCTIONS[1]))
    /\ axes = defaultAxes
    /\ pending = {}

\* C13: with a non-empty outfitHistory, 0 <= currentOutfitIndex < its
\* length; with an empty outfitHistory, currentOutfitIndex is 0.
IndexInRange ==
    IF Len(outfitHistory) = 0
    THEN currentOutfitIndex = 0
    ELSE /\ 0 <= currentOutfitIndex
         /\ currentOutfitIndex < Len(outfitHistory)

\* C14: while the start screen is shown, every outstanding request was
\* started before the last handleStartOver; its completion, success or
\* failure, changes none of outfitHistory, currentOutfitIndex, the current
\* selection, error and isLoading.
SessionIsolation ==
    [][ \A r \in pending :
          /\ modelImageUrl = NoUrl
          /\ \/ GarmentResolved(r)
             \/ GarmentRejected(r)
             \/ VariationResolved(r)
             \/ VariationRejected(r)
          => UNCHANGED <<outfitHistory, currentOutfitIndex, axes, error,
                         isLoading>> ]_vars

\* C15: in every state with isLoading false and a non-empty outfitHistory
\* the current layer exists and caches an image under the exact composite
\* key of the current selection, which is the image displayed.
ExactDisplayWhenIdle ==
    (~isLoading /\ Len(outfitHistory) # 0)
      => /\ layerExists
         /\ HasKey(currentImages, primaryKey)
         /\ displayImageUrl = ImageAt(currentImages, primaryKey)

====
